---- MODULE Spec2Model ----
(***************************************************************************)
(* A model of asn1meta/parser.py: the line scanner iter_entries_from_lines *)
(* with its annotation block collector, the parsers of module, type,       *)
(* directive and field lines, the coercion of directive values, and the    *)
(* folding of entries into the per-file index and the overall index.       *)
(*                                                                         *)
(* Text is a sequence of one-character strings, so that the regular        *)
(* expressions and str methods of the source are computed on characters.   *)
(***************************************************************************)
EXTENDS Integers, Sequences, FiniteSets, TLC

(***************************************************************************)
(* Character classes of Python's re and str.                               *)
(***************************************************************************)
Digits == {"0", "1", "2", "3", "4", "5", "6", "7", "8", "9"}

Letters ==
  {"a", "b", "c", "d", "e", "f", "g", "h", "i", "j", "k", "l", "m",
   "n", "o", "p", "q", "r", "s", "t", "u", "v", "w", "x", "y", "z",
   "A", "B", "C", "D", "E", "F", "G", "H", "I", "J", "K", "L", "M",
   "N", "O", "P", "Q", "R", "S", "T", "U", "V", "W", "X", "Y", "Z"}

\* \w
WordChars == Letters \cup Digits \cup {"_"}

\* [\w-]
WordDashChars == WordChars \cup {"-"}

\* [-0-9]
DashDigitChars == Digits \cup {"-"}

\* \s, and the characters str.strip() removes
SpaceChars == {" ", "\t", "\n", "\r"}

(***************************************************************************)
(* str helpers.                                                            *)
(***************************************************************************)
\* s[i-1:] in Python terms: the text from the 1-based index i on
From(s, i) == SubSeq(s, i, Len(s))

\* str.startswith
startswith(s, p) == Len(s) >= Len(p) /\ SubSeq(s, 1, Len(p)) = p

\* str.endswith
endswith(s, p) == Len(s) >= Len(p) /\ SubSeq(s, Len(s) - Len(p) + 1, Len(s)) = p

\* str.strip(): drop leading and trailing whitespace
strip(s) ==
  LET keep == {i \in 1..Len(s) : s[i] \notin SpaceChars}
  IN  IF keep = {} THEN <<>>
      ELSE LET first == CHOOSE i \in keep : \A j \in keep : i <= j
               last  == CHOOSE i \in keep : \A j \in keep : j <= i
           IN  SubSeq(s, first, last)

\* The index just after the longest run of characters of class cls that starts
\* at index i (i itself when there is no such character): a greedy cls*.
RunEnd(s, i, cls) ==
  CHOOSE j \in i..(Len(s) + 1) :
    /\ \A k \in i..(j - 1) : s[k] \in cls
    /\ (j = Len(s) + 1 \/ s[j] \notin cls)

\* val[1:-1]
Inner(val) == SubSeq(val, 2, Len(val) - 1)

\* str.split(","), as the sequence of pieces
RECURSIVE split_comma(_)
split_comma(s) ==
  IF \A i \in 1..Len(s) : s[i] # ","
  THEN <<s>>
  ELSE LET c == CHOOSE i \in 1..Len(s) : s[i] = "," /\ \A j \in 1..(i - 1) : s[j] # ","
       IN  <<SubSeq(s, 1, c - 1)>> \o split_comma(From(s, c + 1))

(***************************************************************************)
(* Literal texts of the source.                                            *)
(***************************************************************************)
UnknownModule == <<"U","n","k","n","o","w","n","M","o","d","u","l","e">>
UnknownType == <<"U","n","k","n","o","w","n","T","y","p","e">>
DEFINITIONS == <<"D","E","F","I","N","I","T","I","O","N","S">>
SEQUENCE == <<"S","E","Q","U","E","N","C","E">>
INTEGER == <<"I","N","T","E","G","E","R">>
MetaMarker == <<"-","-"," ","[","M","e","t","a","]">>
DirectivePrefix == <<"-","-"," ","@">>
CloseBrace == <<"}">>

\* The result of a parse that did not match (None)
NoName == [ok |-> FALSE, name |-> <<>>]

(***************************************************************************)
(* parse_module_line: ^([\w-]+)\s+DEFINITIONS                              *)
(***************************************************************************)
parse_module_line(line) ==
  LET a == RunEnd(line, 1, WordDashChars)
      b == RunEnd(line, a, SpaceChars)
  IN  IF a > 1 /\ b > a /\ startswith(From(line, b), DEFINITIONS)
      THEN [ok |-> TRUE, name |-> SubSeq(line, 1, a - 1)]
      ELSE NoName

(***************************************************************************)
(* parse_type_line: ^([\w-]+)\s*::=\s*SEQUENCE\s*{                         *)
(***************************************************************************)
parse_type_line(line) ==
  LET a == RunEnd(line, 1, WordDashChars)
      b == RunEnd(line, a, SpaceChars)
      c == RunEnd(line, b + 3, SpaceChars)
      d == RunEnd(line, c + 8, SpaceChars)
  IN  IF /\ a > 1
         /\ startswith(From(line, b), <<":", ":", "=">>)
         /\ startswith(From(line, c), SEQUENCE)
         /\ startswith(From(line, d), <<"{">>)
      THEN [ok |-> TRUE, name |-> SubSeq(line, 1, a - 1)]
      ELSE NoName

(***************************************************************************)
(* Numbers.  A float is kept as the decimal number it denotes,             *)
(* num * 10^exp with num not divisible by 10 (0 is num = 0, exp = 0), or   *)
(* as one of the special values float() accepts.                           *)
(***************************************************************************)
DigitValue(c) ==
  CASE c = "0" -> 0 [] c = "1" -> 1 [] c = "2" -> 2 [] c = "3" -> 3 [] c = "4" -> 4
    [] c = "5" -> 5 [] c = "6" -> 6 [] c = "7" -> 7 [] c = "8" -> 8 [] c = "9" -> 9

\* The number written by a sequence of digits ("" is 0)
RECURSIVE DigitsValue(_)
DigitsValue(ds) ==
  IF ds = <<>> THEN 0
  ELSE 10 * DigitsValue(SubSeq(ds, 1, Len(ds) - 1)) + DigitValue(ds[Len(ds)])

\* A digit part of a Python numeric literal: digits, single underscores
\* allowed between two digits only
IsDigitPart(s) ==
  /\ s # <<>>
  /\ \A i \in 1..Len(s) : s[i] \in Digits \cup {"_"}
  /\ s[1] \in Digits /\ s[Len(s)] \in Digits
  /\ \A i \in 1..(Len(s) - 1) : ~(s[i] = "_" /\ s[i + 1] = "_")

\* The digits of a digit part, underscores removed
DropUnderscores(s) == SelectSeq(s, LAMBDA c : c # "_")

RECURSIVE Normalize(_, _)
Normalize(num, exp) ==
  IF num = 0 THEN [kind |-> "fin", num |-> 0, exp |-> 0]
  ELSE IF num % 10 = 0 THEN Normalize(num \div 10, exp + 1)
  ELSE [kind |-> "fin", num |-> num, exp |-> exp]

\* Case-insensitive equality with a lower-case word
IsWordNoCase(s, w) ==
  /\ Len(s) = Len(w)
  /\ \A i \in 1..Len(s) :
       \/ s[i] = w[i]
       \/ <<s[i], w[i]>> \in {<<"I", "i">>, <<"N", "n">>, <<"F", "f">>,
                               <<"T", "t">>, <<"Y", "y">>, <<"A", "a">>}

NoFloat == [ok |-> FALSE, f |-> [kind |-> "nan", num |-> 0, exp |-> 0]]

\* The index of the first character of s that is in cls, Len(s) + 1 if none
FirstIndex(s, cls) == RunEnd(s, 1, {s[i] : i \in 1..Len(s)} \ cls)

\* A text begins with a sign
IsSigned(t) == t # <<>> /\ t[1] \in {"+", "-"}

SignOf(t) == IF IsSigned(t) /\ t[1] = "-" THEN -1 ELSE 1

Unsigned(t) == IF IsSigned(t) THEN From(t, 2) ELSE t

\* The text before the character at index i, and the text after it
Before(s, i) == SubSeq(s, 1, i - 1)
After(s, i) == From(s, i + 1)

\* A variant of float_decimal that takes no exponent
float_decimal_no_exponent(sgn, ipart, fpart, has_exp, esgn, edig) ==
  IF /\ ipart = <<>> \/ IsDigitPart(ipart)
     /\ fpart = <<>> \/ IsDigitPart(fpart)
     /\ ipart # <<>> \/ fpart # <<>>
     /\ ~has_exp
  THEN [ok |-> TRUE,
        f  |-> Normalize(sgn * DigitsValue(DropUnderscores(ipart) \o DropUnderscores(fpart)),
                         0 - Len(DropUnderscores(fpart)))]
  ELSE NoFloat

\* float() of a decimal literal given by its parts: sign, integer digits,
\* fraction digits, and the sign and digits of the exponent if it has one
float_decimal(sgn, ipart, fpart, has_exp, esgn, edig) ==
  IF /\ ipart = <<>> \/ IsDigitPart(ipart)
     /\ fpart = <<>> \/ IsDigitPart(fpart)
     /\ ipart # <<>> \/ fpart # <<>>
     /\ has_exp => IsDigitPart(edig)
  THEN [ok |-> TRUE,
        f  |-> Normalize(sgn * DigitsValue(DropUnderscores(ipart) \o DropUnderscores(fpart)),
                         (IF has_exp THEN esgn * DigitsValue(DropUnderscores(edig)) ELSE 0)
                           - Len(DropUnderscores(fpart)))]
  ELSE NoFloat

\* float() of a mantissa and an exponent text
float_parts(sgn, mant, has_exp, expo) ==
  float_decimal(sgn, Before(mant, FirstIndex(mant, {"."})),
                After(mant, FirstIndex(mant, {"."})),
                has_exp, SignOf(expo), Unsigned(expo))

\* float() of a text without its sign
float_unsigned(sgn, body) ==
  IF IsWordNoCase(body, <<"i","n","f">>)
     \/ IsWordNoCase(body, <<"i","n","f","i","n","i","t","y">>)
  THEN [ok |-> TRUE, f |-> [kind |-> "inf", num |-> sgn, exp |-> 0]]
  ELSE IF IsWordNoCase(body, <<"n","a","n">>)
  THEN [ok |-> TRUE, f |-> [kind |-> "nan", num |-> 0, exp |-> 0]]
  ELSE float_parts(sgn, Before(body, FirstIndex(body, {"e", "E"})),
                   FirstIndex(body, {"e", "E"}) <= Len(body),
                   After(body, FirstIndex(body, {"e", "E"})))

float_stripped(t) == float_unsigned(SignOf(t), Unsigned(t))

\* float(s): ok = FALSE stands for ValueError
float(s) == float_stripped(strip(s))

\* int(s) on a text of [-0-9]+: ok = FALSE stands for ValueError
int(s) ==
  LET neg  == s # <<>> /\ s[1] = "-"
      body == IF neg THEN From(s, 2) ELSE s
  IN  IF body # <<>> /\ \A i \in 1..Len(body) : body[i] \in Digits
      THEN [ok |-> TRUE, n |-> (IF neg THEN -1 ELSE 1) * DigitsValue(body)]
      ELSE [ok |-> FALSE, n |-> 0]

(***************************************************************************)
(* Values: the float, str or tuple of floats parse_meta_value returns.     *)
(***************************************************************************)
Number(f) == [tag |-> "Number", text |-> <<>>, nums |-> <<f>>]
Text(s) == [tag |-> "Text", text |-> s, nums |-> <<>>]
Tuple(fs) == [tag |-> "Tuple", text |-> <<>>, nums |-> fs]

\* No value: parse_meta_value has not returned
NotParsed == [tag |-> "None", text |-> <<>>, nums |-> <<>>]

parse_meta_value(v) ==
  LET val   == strip(v)
      parts == split_comma(strip(Inner(val)))
      conv  == [i \in 1..Len(parts) |-> float(strip(parts[i]))]
  IN  IF startswith(val, <<"(">>) /\ endswith(val, <<")">>)
      THEN IF \A i \in 1..Len(parts) : conv[i].ok
           THEN Tuple([i \in 1..Len(parts) |-> conv[i].f])
           ELSE Text(val)
      ELSE IF \/ startswith(val, <<"'">>) /\ endswith(val, <<"'">>)
              \/ startswith(val, <<"\"">>) /\ endswith(val, <<"\"">>)
      THEN Text(Inner(val))
      ELSE IF float(val).ok THEN Number(float(val).f)
      ELSE Text(val)

(***************************************************************************)
(* parse_generic_meta_block.  A meta map is a function from keys to        *)
(* values.  The directive pattern is  --\s*@(\w+)\s+( .* )  (the last      *)
(* group is "any characters, any number of them").                         *)
(***************************************************************************)
NoDirective == [ok |-> FALSE, key |-> <<>>, value_str |-> <<>>]

\* A variant of match_directive whose pattern makes the value optional
match_directive_optional_value(line) ==
  LET a == RunEnd(line, 3, SpaceChars)
      k == RunEnd(line, a + 1, WordChars)
      v == RunEnd(line, k, SpaceChars)
  IN  IF /\ startswith(line, <<"-", "-">>)
         /\ startswith(From(line, a), <<"@">>)
         /\ k > a + 1
      THEN [ok |-> TRUE, key |-> SubSeq(line, a + 1, k - 1), value_str |-> From(line, v)]
      ELSE NoDirective

\* re.match of the directive pattern: the groups (key, value_str) of a match
match_directive(line) ==
  LET a == RunEnd(line, 3, SpaceChars)
      k == RunEnd(line, a + 1, WordChars)
      v == RunEnd(line, k, SpaceChars)
  IN  IF /\ startswith(line, <<"-", "-">>)
         /\ startswith(From(line, a), <<"@">>)
         /\ k > a + 1
         /\ v > k
      THEN [ok |-> TRUE, key |-> SubSeq(line, a + 1, k - 1), value_str |-> From(line, v)]
      ELSE NoDirective

EmptyMap == [k \in {} |-> 0]

\* A variant of SetItem that keeps the value a key already has
SetItemKeepsFirst(d, key, value) ==
  [k \in (DOMAIN d) \cup {key} |-> IF k \in DOMAIN d THEN d[k] ELSE value]

\* d[key] = value on a dict
SetItem(d, key, value) ==
  [k \in (DOMAIN d) \cup {key} |-> IF k = key THEN value ELSE d[k]]

RECURSIVE parse_generic_meta_block(_)
parse_generic_meta_block(meta_lines) ==
  IF meta_lines = <<>> THEN EmptyMap
  ELSE LET before == parse_generic_meta_block(SubSeq(meta_lines, 1, Len(meta_lines) - 1))
           m      == match_directive(meta_lines[Len(meta_lines)])
       IN  IF m.ok THEN SetItem(before, m.key, parse_meta_value(m.value_str))
           ELSE before

(***************************************************************************)
(* parse_field_line:                                                       *)
(*   ^([\w-]+)\s+([\w-]+)(?:\s*\(([-0-9]+)\.\.([-0-9]+)\))?,?              *)
(* status is "none" for None, "ok" for a returned tuple and "raise" when   *)
(* int() raises ValueError on a matched bound.                             *)
(***************************************************************************)
NoRestrict == [has |-> FALSE, lo |-> 0, hi |-> 0]

FieldResult(status, name, type, restrict) ==
  [status |-> status, field_name |-> name, field_type |-> type,
   integer_restrict_to |-> restrict]

\* The optional group of the field pattern, tried at index c: groups 3 and 4
match_bounds(line, c) ==
  LET g == RunEnd(line, c, SpaceChars)
      l == RunEnd(line, g + 1, DashDigitChars)
      h == RunEnd(line, l + 2, DashDigitChars)
  IN  IF /\ startswith(From(line, g), <<"(">>)
         /\ l > g + 1
         /\ startswith(From(line, l), <<".", ".">>)
         /\ h > l + 2
         /\ startswith(From(line, h), <<")">>)
      THEN [ok |-> TRUE, g3 |-> SubSeq(line, g + 1, l - 1), g4 |-> SubSeq(line, l + 2, h - 1)]
      ELSE [ok |-> FALSE, g3 |-> <<>>, g4 |-> <<>>]

\* A variant of parse_field_line that puts the bounds in ascending order
parse_field_line_ordered(line) ==
  LET a  == RunEnd(line, 1, WordDashChars)
      b  == RunEnd(line, a, SpaceChars)
      c  == RunEnd(line, b, WordDashChars)
      field_name == SubSeq(line, 1, a - 1)
      field_type == SubSeq(line, b, c - 1)
      bounds == match_bounds(line, c)
      lo == int(bounds.g3)
      hi == int(bounds.g4)
  IN  IF ~(a > 1 /\ b > a /\ c > b)
      THEN FieldResult("none", <<>>, <<>>, NoRestrict)
      ELSE IF field_type = INTEGER /\ bounds.ok
      THEN IF lo.ok /\ hi.ok
           THEN FieldResult("ok", field_name, field_type,
                            [has |-> TRUE,
                             lo  |-> IF lo.n <= hi.n THEN lo.n ELSE hi.n,
                             hi  |-> IF lo.n <= hi.n THEN hi.n ELSE lo.n])
           ELSE FieldResult("raise", <<>>, <<>>, NoRestrict)
      ELSE FieldResult("ok", field_name, field_type, NoRestrict)

parse_field_line(line) ==
  LET a  == RunEnd(line, 1, WordDashChars)
      b  == RunEnd(line, a, SpaceChars)
      c  == RunEnd(line, b, WordDashChars)
      field_name == SubSeq(line, 1, a - 1)
      field_type == SubSeq(line, b, c - 1)
      bounds == match_bounds(line, c)
      lo == int(bounds.g3)
      hi == int(bounds.g4)
  IN  IF ~(a > 1 /\ b > a /\ c > b)
      THEN FieldResult("none", <<>>, <<>>, NoRestrict)
      ELSE IF field_type = INTEGER /\ bounds.ok
      THEN IF lo.ok /\ hi.ok
           THEN FieldResult("ok", field_name, field_type,
                            [has |-> TRUE, lo |-> lo.n, hi |-> hi.n])
           ELSE FieldResult("raise", <<>>, <<>>, NoRestrict)
      ELSE FieldResult("ok", field_name, field_type, NoRestrict)

(***************************************************************************)
(* The entry aggregation of process_file and parse_files.  An index is a   *)
(* function module -> type -> field -> entry.                              *)
(***************************************************************************)
\* d.setdefault(key, {})
SetDefault(d, key) == IF key \in DOMAIN d THEN d[key] ELSE EmptyMap

\* d.update(other)
Update(d, other) ==
  [k \in (DOMAIN d) \cup (DOMAIN other) |-> IF k \in DOMAIN other THEN other[k] ELSE d[k]]

\* A variant of StoreEntry that merges the meta map of a field already stored
\* into the new entry
StoreEntryMergesMeta(data, e) ==
  LET types  == SetDefault(data, e.module)
      fields == SetDefault(types, e.type)
      merged == IF e.field \in DOMAIN fields
                THEN [field |-> e.entry.field,
                      meta  |-> Update(fields[e.field].meta, e.entry.meta)]
                ELSE e.entry
  IN  SetItem(data, e.module, SetItem(types, e.type, SetItem(fields, e.field, merged)))

\* data.setdefault(module, {}).setdefault(typ, {})[field] = entry
StoreEntry(data, e) ==
  LET types  == SetDefault(data, e.module)
      fields == SetDefault(types, e.type)
  IN  SetItem(data, e.module, SetItem(types, e.type, SetItem(fields, e.field, e.entry)))

\* The loop of process_file over the entries of one file
RECURSIVE process_entries(_)
process_entries(es) ==
  IF es = <<>> THEN EmptyMap
  ELSE StoreEntry(process_entries(SubSeq(es, 1, Len(es) - 1)), es[Len(es)])

\* A variant of merge_file_data that merges the fields of a type present on
\* both sides instead of replacing its field map
merge_file_data_deep(overall, data) ==
  [mod \in (DOMAIN overall) \cup (DOMAIN data) |->
     IF mod \in DOMAIN data
     THEN LET old == SetDefault(overall, mod)
          IN  [t \in (DOMAIN old) \cup (DOMAIN data[mod]) |->
                 IF t \in DOMAIN data[mod]
                 THEN Update(SetDefault(old, t), data[mod][t])
                 ELSE old[t]]
     ELSE overall[mod]]

\* A variant of merge_file_data that replaces the whole type map of a module
merge_file_data_per_module(overall, data) ==
  [mod \in (DOMAIN overall) \cup (DOMAIN data) |->
     IF mod \in DOMAIN data THEN data[mod] ELSE overall[mod]]

\* The inner loop of parse_files: overall_data.setdefault(mod, {}).update(types)
\* for every module of file_data
merge_file_data(overall, data) ==
  [mod \in (DOMAIN overall) \cup (DOMAIN data) |->
     IF mod \in DOMAIN data THEN Update(SetDefault(overall, mod), data[mod])
     ELSE overall[mod]]

\* The loop of parse_files over the per-file indices, in the order given
RECURSIVE merge_all(_)
merge_all(indices) ==
  IF indices = <<>> THEN EmptyMap
  ELSE merge_file_data(merge_all(SubSeq(indices, 1, Len(indices) - 1)),
                       indices[Len(indices)])

(***************************************************************************)
(* Input lines, as f.readlines() returns them.                             *)
(***************************************************************************)
\* 'M DEFINITIONS\n'
LineModule == <<"M"," ","D","E","F","I","N","I","T","I","O","N","S","\n">>

\* 'T ::= SEQUENCE {\n'
LineType == <<"T"," ",":",":","="," ","S","E","Q","U","E","N","C","E"," ","{","\n">>

\* '}\n'
LineClose == <<"}","\n">>

\* '  -- [Meta]\n'
LineMarker == <<" "," ","-","-"," ","[","M","e","t","a","]","\n">>

\* '  -- @K 1\n'
LineDirective == <<" "," ","-","-"," ","@","K"," ","1","\n">>

\* '  -- @K\n'
LineKeyOnly == <<" "," ","-","-"," ","@","K","\n">>

\* '  a INTEGER (1..2),\n'
LineField ==
  <<" "," ","a"," ","I","N","T","E","G","E","R"," ","(","1",".",".","2",
    ")",",","\n">>

\* '  b X(1..2)\n'
LineFieldX == <<" "," ","b"," ","X","(","1",".",".","2",")","\n">>

\* '  a INTEGER (-..1)\n'
LineBadBounds ==
  <<" "," ","a"," ","I","N","T","E","G","E","R"," ","(","-",".",".","1",
    ")","\n">>

\* ' \n'
LineBlank == <<" ","\n">>

\* 'MyModule DEFINITIONS ::= BEGIN\n'
LineMyModule ==
  <<"M","y","M","o","d","u","l","e"," ","D","E","F","I","N","I","T","I",
    "O","N","S"," ",":",":","="," ","B","E","G","I","N","\n">>

\* 'Telemetry ::= SEQUENCE {\n'
LineTelemetry ==
  <<"T","e","l","e","m","e","t","r","y"," ",":",":","="," ","S","E","Q",
    "U","E","N","C","E"," ","{","\n">>

\* 'Status ::= SEQUENCE {\n'
LineStatus ==
  <<"S","t","a","t","u","s"," ",":",":","="," ","S","E","Q","U","E","N",
    "C","E"," ","{","\n">>

\* '-- [Meta]\n'
LineMeta == <<"-","-"," ","[","M","e","t","a","]","\n">>

\* '-- @Scale 0.1\n'
LineScale == <<"-","-"," ","@","S","c","a","l","e"," ","0",".","1","\n">>

\* '-- @Range (-12.8, 12.7)\n'
LineRange ==
  <<"-","-"," ","@","R","a","n","g","e"," ","(","-","1","2",".","8",",",
    " ","1","2",".","7",")","\n">>

\* "-- @Units 'V'\n"
LineUnits == <<"-","-"," ","@","U","n","i","t","s"," ","'","V","'","\n">>

\* 'ascent-rate INTEGER (-128..127),\n'
LineAscentRate ==
  <<"a","s","c","e","n","t","-","r","a","t","e"," ","I","N","T","E","G",
    "E","R"," ","(","-","1","2","8",".",".","1","2","7",")",",","\n">>

\* 'voltage Stat32u,\n'
LineVoltage == <<"v","o","l","t","a","g","e"," ","S","t","a","t","3","2","u",",","\n">>

\* 'current Stat32u,\n'
LineCurrent == <<"c","u","r","r","e","n","t"," ","S","t","a","t","3","2","u",",","\n">>

\* 'END\n'
LineEnd == <<"E","N","D","\n">>

\* '-- @Units\n'
LineUnitsOnly == <<"-","-"," ","@","U","n","i","t","s","\n">>

\* '-- @scale 2\n'
LineScaleLower == <<"-","-"," ","@","s","c","a","l","e"," ","2","\n">>

\* '-- @Scale 0.5\n'
LineScaleAgain == <<"-","-"," ","@","S","c","a","l","e"," ","0",".","5","\n">>

\* 'depth INTEGER (5..-5),\n'
LineDepth ==
  <<"d","e","p","t","h"," ","I","N","T","E","G","E","R"," ","(","5",".",
    ".","-","5",")",",","\n">>

\* The lines the bounded files are made of
Vocabulary ==
  {LineModule, LineType, LineClose, LineMarker, LineDirective, LineKeyOnly,
   LineField, LineFieldX, LineBadBounds, LineBlank}

\* Scenario A of the specification
ScenarioA ==
  <<LineMyModule, LineTelemetry, LineMeta, LineScale, LineRange, LineAscentRate,
    LineClose, LineEnd>>

\* The same type with another field set, one field annotated and one not
FileVoltage ==
  <<LineMyModule, LineTelemetry, LineMeta, LineUnits, LineVoltage, LineCurrent,
    LineClose, LineEnd>>

\* Another type of the same module; the file ends inside an annotation block
FileStatus ==
  <<LineMyModule, LineStatus, LineMeta, LineScale, LineCurrent, LineMeta, LineUnits>>

\* A field line whose bounds are no integers, followed by more lines
FileBadBounds ==
  <<LineTelemetry, LineMeta, LineScale, LineBadBounds, LineClose>>

\* No module line; a type body opened twice and a field annotated twice
FileReopened ==
  <<LineTelemetry, LineMeta, LineScale, LineVoltage, LineClose,
    LineTelemetry, LineMeta, LineUnits, LineVoltage, LineMeta, LineRange,
    LineAscentRate>>

\* A directive line without a value, keys that differ in case only, and a key
\* given twice
FileDirectives ==
  <<LineTelemetry, LineMeta, LineScale, LineUnitsOnly, LineScaleLower,
    LineScaleAgain, LineAscentRate>>

\* A type closed before another one is opened; bounds with lo above hi; the
\* file ends inside the SEQUENCE body
FileTwoTypes ==
  <<LineMyModule, LineStatus, LineClose, LineTelemetry, LineMeta, LineScale,
    LineDepth, LineMeta, LineScale, LineFieldX>>

PresetFiles ==
  {ScenarioA, FileVoltage, FileStatus, FileReopened, FileBadBounds, FileDirectives,
   FileTwoTypes}

\* Longest bounded file
MaxLines == 4

\* Longest list of preset files
MaxFiles == 2

BoundedFiles == UNION {[1..n -> Vocabulary] : n \in 0..MaxLines}

\* The arguments of parse_files: one bounded file, or a list of preset files
FileLists ==
  {<<f>> : f \in BoundedFiles} \cup UNION {[1..n -> PresetFiles] : n \in 0..MaxFiles}

(***************************************************************************)
(* State.                                                                  *)
(***************************************************************************)
VARIABLES
  asn_files,       \* the argument of parse_files: the lines of each file
  file_no,         \* position of the loop of parse_files in asn_files (from 1)
  pc,              \* "start": between two files; "outer": in the outer loop of
                   \* iter_entries_from_lines; "collect": in its inner loop;
                   \* "done": parse_files has returned; "raised": an exception
                   \* has left parse_files
  pos,             \* line_iter: the number of lines pulled from it
  current_module,
  current_type,
  in_sequence,
  meta_lines,
  entries,         \* the tuples yielded for the current file, in order
  file_data,       \* the indices process_file has returned, one per scanned file
  overall_data,    \* the index parse_files builds
  pulls,           \* for each pull from line_iter of the current file, in
                   \* order: the index of the line, the loop that pulled it
                   \* and in_sequence at that moment
  marks,           \* for each yielded tuple: the index of the marker line and
                   \* of the terminating line of its block
  value_str,       \* the argument of a call of parse_meta_value on its own
  value,           \* what that call returned, NotParsed before it returns
  data             \* the index the legacy parse() builds

vars ==
  <<asn_files, file_no, pc, pos, current_module, current_type, in_sequence,
    meta_lines, entries, file_data, overall_data, pulls, marks, value_str, value,
    data>>

\* The variables parse_files does not touch
apart == <<value_str, value, data>>

context == <<current_module, current_type, in_sequence>>

\* The lines of the file being scanned
lines == asn_files[file_no]

\* The line the next pull from line_iter returns, stripped
next_line == strip(lines[pos + 1])

Init ==
  /\ asn_files \in FileLists
  /\ file_no = 1
  /\ pc = "start"
  /\ pos = 0
  /\ current_module = UnknownModule
  /\ current_type = UnknownType
  /\ in_sequence = FALSE
  /\ meta_lines = <<>>
  /\ entries = <<>>
  /\ file_data = <<>>
  /\ overall_data = EmptyMap
  /\ pulls = <<>>
  /\ marks = <<>>
  /\ value_str = <<>>
  /\ value = NotParsed
  /\ data = EmptyMap

(***************************************************************************)
(* parse_files and process_file.                                           *)
(***************************************************************************)
\* A variant of StartFile that keeps the context of the file before
StartFileKeepsContext ==
  /\ pc = "start"
  /\ file_no <= Len(asn_files)
  /\ pc' = "outer"
  /\ pos' = 0
  /\ meta_lines' = <<>>
  /\ entries' = <<>>
  /\ pulls' = <<>>
  /\ marks' = <<>>
  /\ UNCHANGED <<apart, asn_files, file_no, context, file_data, overall_data>>

\* The loop of parse_files takes the next file: process_file reads its lines
\* and iter_entries_from_lines starts on them.
StartFile ==
  /\ pc = "start"
  /\ file_no <= Len(asn_files)
  /\ pc' = "outer"
  /\ pos' = 0
  /\ current_module' = UnknownModule
  /\ current_type' = UnknownType
  /\ in_sequence' = FALSE
  /\ meta_lines' = <<>>
  /\ entries' = <<>>
  /\ pulls' = <<>>
  /\ marks' = <<>>
  /\ UNCHANGED <<apart, asn_files, file_no, file_data, overall_data>>

\* The outer loop finds line_iter exhausted: the generator returns,
\* process_file folds the entries and parse_files merges the file's index.
EndOfLines ==
  /\ pc = "outer"
  /\ pos = Len(lines)
  /\ file_data' = Append(file_data, process_entries(entries))
  /\ overall_data' = merge_file_data(overall_data, process_entries(entries))
  /\ file_no' = file_no + 1
  /\ pc' = "start"
  /\ UNCHANGED <<apart, asn_files, pos, context, meta_lines, entries, pulls, marks>>

\* No file is left: parse_files returns overall_data.
Return ==
  /\ pc = "start"
  /\ file_no > Len(asn_files)
  /\ pc' = "done"
  /\ UNCHANGED <<apart, asn_files, file_no, pos, context, meta_lines, entries, file_data,
                 overall_data, pulls, marks>>

(***************************************************************************)
(* The outer loop of iter_entries_from_lines: one action per kind of line. *)
(***************************************************************************)
\* The step "for raw_line in line_iter" of the outer loop
OuterPull ==
  /\ pc = "outer"
  /\ pos < Len(lines)
  /\ pos' = pos + 1
  /\ pulls' = Append(pulls, [line |-> pos + 1, by |-> "outer", in_sequence |-> in_sequence])
  /\ UNCHANGED <<apart, asn_files, file_no, file_data, overall_data>>

IsModuleLine(line) == line # <<>> /\ parse_module_line(line).ok

IsTypeLine(line) == line # <<>> /\ ~parse_module_line(line).ok /\ parse_type_line(line).ok

\* Neither blank nor a module or type line
IsBodyLine(line) ==
  line # <<>> /\ ~parse_module_line(line).ok /\ ~parse_type_line(line).ok

IsCloseLine(line) == IsBodyLine(line) /\ in_sequence /\ line = CloseBrace

\* A variant of IsMarkerLine that does not ask for in_sequence
IsMarkerLineAnywhere(line) ==
  /\ IsBodyLine(line)
  /\ ~(in_sequence /\ line = CloseBrace)
  /\ startswith(line, MetaMarker)

IsMarkerLine(line) ==
  /\ IsBodyLine(line)
  /\ ~(in_sequence /\ line = CloseBrace)
  /\ in_sequence
  /\ startswith(line, MetaMarker)

BlankLine ==
  /\ OuterPull
  /\ next_line = <<>>
  /\ UNCHANGED <<pc, context, meta_lines, entries, marks>>

ModuleLine ==
  /\ OuterPull
  /\ IsModuleLine(next_line)
  /\ current_module' = parse_module_line(next_line).name
  /\ UNCHANGED <<pc, current_type, in_sequence, meta_lines, entries, marks>>

TypeLine ==
  /\ OuterPull
  /\ IsTypeLine(next_line)
  /\ current_type' = parse_type_line(next_line).name
  /\ in_sequence' = TRUE
  /\ UNCHANGED <<pc, current_module, meta_lines, entries, marks>>

\* A variant of CloseLine that resets the module as well
CloseLineResetsModule ==
  /\ OuterPull
  /\ IsCloseLine(next_line)
  /\ in_sequence' = FALSE
  /\ current_type' = UnknownType
  /\ current_module' = UnknownModule
  /\ UNCHANGED <<pc, meta_lines, entries, marks>>

CloseLine ==
  /\ OuterPull
  /\ IsCloseLine(next_line)
  /\ in_sequence' = FALSE
  /\ current_type' = UnknownType
  /\ UNCHANGED <<pc, current_module, meta_lines, entries, marks>>

\* The marker line starts the inner loop with an empty meta_lines.
MarkerLine ==
  /\ OuterPull
  /\ IsMarkerLine(next_line)
  /\ meta_lines' = <<>>
  /\ pc' = "collect"
  /\ UNCHANGED <<context, entries, marks>>

\* A variant of OtherLine that yields an entry with an empty meta map for a
\* line that parses as a field line
OtherLineYieldsField ==
  /\ OuterPull
  /\ IsBodyLine(next_line)
  /\ ~(in_sequence /\ next_line = CloseBrace)
  /\ ~(in_sequence /\ startswith(next_line, MetaMarker))
  /\ LET field_parsed == parse_field_line(next_line)
     IN  IF field_parsed.status = "ok"
         THEN /\ entries' = Append(entries,
                   [module |-> current_module, type |-> current_type,
                    field  |-> field_parsed.field_name,
                    entry  |-> [field |-> ("type" :> field_parsed.field_type),
                                meta  |-> EmptyMap]])
              /\ marks' = Append(marks, [marker |-> pos + 1, field |-> pos + 1])
         ELSE UNCHANGED <<entries, marks>>
  /\ UNCHANGED <<pc, context, meta_lines>>

\* Any other line falls through the body of the loop.
OtherLine ==
  /\ OuterPull
  /\ IsBodyLine(next_line)
  /\ ~IsCloseLine(next_line)
  /\ ~IsMarkerLine(next_line)
  /\ UNCHANGED <<pc, context, meta_lines, entries, marks>>

(***************************************************************************)
(* The inner loop: "for candidate in line_iter".                           *)
(***************************************************************************)
CollectorPull ==
  /\ pc = "collect"
  /\ pos < Len(lines)
  /\ pos' = pos + 1
  /\ pulls' = Append(pulls, [line |-> pos + 1, by |-> "collector", in_sequence |-> in_sequence])
  /\ UNCHANGED <<apart, asn_files, file_no, file_data, overall_data>>

IsDirectiveLine(candidate) == startswith(candidate, DirectivePrefix)

\* The marker line of the block being collected: the last outer pull
marker_index ==
  LET outer == {i \in 1..Len(pulls) : pulls[i].by = "outer"}
  IN  pulls[CHOOSE i \in outer : \A j \in outer : j <= i].line

\* A variant of FieldInfo that never attaches the bounds
FieldInfoNoBounds(field_parsed) == ("type" :> field_parsed.field_type)

\* field_info of a parsed field line
FieldInfo(field_parsed) ==
  IF field_parsed.field_type = INTEGER /\ field_parsed.integer_restrict_to.has
  THEN ("type" :> field_parsed.field_type)
         @@ ("restrict-to" :> <<field_parsed.integer_restrict_to.lo,
                                field_parsed.integer_restrict_to.hi>>)
  ELSE ("type" :> field_parsed.field_type)

\* The tuple yielded for a block
Yielded(meta, field_parsed) ==
  [module |-> current_module, type |-> current_type,
   field  |-> field_parsed.field_name,
   entry  |-> [field |-> FieldInfo(field_parsed), meta |-> meta]]

CollectDirective ==
  /\ CollectorPull
  /\ IsDirectiveLine(next_line)
  /\ meta_lines' = Append(meta_lines, next_line)
  /\ UNCHANGED <<pc, context, entries, marks>>

\* A variant of EndBlock without the test "if not meta: continue"
EndBlockKeepsEmptyMeta ==
  /\ CollectorPull
  /\ ~IsDirectiveLine(next_line)
  /\ LET meta         == parse_generic_meta_block(meta_lines)
         field_parsed == parse_field_line(next_line)
     IN  IF field_parsed.status = "none"
         THEN pc' = "outer" /\ UNCHANGED <<entries, marks>>
         ELSE IF field_parsed.status = "raise"
         THEN pc' = "raised" /\ UNCHANGED <<entries, marks>>
         ELSE /\ pc' = "outer"
              /\ entries' = Append(entries, Yielded(meta, field_parsed))
              /\ marks' = Append(marks, [marker |-> marker_index, field |-> pos + 1])
  /\ UNCHANGED <<context, meta_lines>>

\* The first line that is no directive is the field line and ends the block:
\* the block is dropped when meta is empty or the field line does not parse,
\* int() may raise on its bounds, and otherwise a tuple is yielded.
EndBlock ==
  /\ CollectorPull
  /\ ~IsDirectiveLine(next_line)
  /\ LET meta         == parse_generic_meta_block(meta_lines)
         field_parsed == parse_field_line(next_line)
     IN  IF meta = EmptyMap \/ field_parsed.status = "none"
         THEN pc' = "outer" /\ UNCHANGED <<entries, marks>>
         ELSE IF field_parsed.status = "raise"
         THEN pc' = "raised" /\ UNCHANGED <<entries, marks>>
         ELSE /\ pc' = "outer"
              /\ entries' = Append(entries, Yielded(meta, field_parsed))
              /\ marks' = Append(marks, [marker |-> marker_index, field |-> pos + 1])
  /\ UNCHANGED <<context, meta_lines>>

\* A variant of CollectExhausted in which the exhausted iterator raises
CollectExhaustedRaises ==
  /\ pc = "collect"
  /\ pos = Len(lines)
  /\ pc' = "raised"
  /\ UNCHANGED <<apart, asn_files, file_no, pos, context, meta_lines, entries, file_data,
                 overall_data, pulls, marks>>

\* line_iter is exhausted inside the inner loop: the else branch of the for
\* continues the outer loop, which finds line_iter exhausted as well.
CollectExhausted ==
  /\ pc = "collect"
  /\ pos = Len(lines)
  /\ pc' = "outer"
  /\ UNCHANGED <<apart, asn_files, file_no, pos, context, meta_lines, entries, file_data,
                 overall_data, pulls, marks>>

Next ==
  \/ StartFile
  \/ EndOfLines
  \/ Return
  \/ BlankLine
  \/ ModuleLine
  \/ TypeLine
  \/ CloseLine
  \/ MarkerLine
  \/ OtherLine
  \/ CollectDirective
  \/ EndBlock
  \/ CollectExhausted

Spec == Init /\ [][Next]_vars

(***************************************************************************)
(* parse_meta_value on its own: a call on one of a bounded set of texts.   *)
(***************************************************************************)
\* The characters the bounded texts are made of
ValueChars == {"(", ")", "'", "\"", "1", ".", "-", "+", "e", "_", ",", " "}

MaxValueLen == 3

BoundedTexts == UNION {[1..n -> ValueChars] : n \in 0..MaxValueLen}

\* '0.1', '(-12.8, 12.7)', "'Ascent rate'", 'not-a-number'
TextScale == <<"0",".","1">>
TextRange == <<"(","-","1","2",".","8",","," ","1","2",".","7",")">>
TextAscentRate == <<"'","A","s","c","e","n","t"," ","r","a","t","e","'">>
TextNotANumber == <<"n","o","t","-","a","-","n","u","m","b","e","r">>

\* '1e3', '1_000', '1,000', '-inf', 'NaN', '0x10', '(1e2, -inf)', '(1, x)',
\* ' "a b" ', '2.50E-1'
TextExponent == <<"1","e","3">>
TextUnderscore == <<"1","_","0","0","0">>
TextThousands == <<"1",",","0","0","0">>
TextMinusInf == <<"-","i","n","f">>
TextNaN == <<"N","a","N">>
TextHex == <<"0","x","1","0">>
TextTupleExponent == <<"(","1","e","2",","," ","-","i","n","f",")">>
TextTupleWord == <<"(","1",","," ","x",")">>
TextQuotedPadded == <<" ","\"","a"," ","b","\""," ">>
TextUpperExponent == <<"2",".","5","0","E","-","1">>

SpecialTexts ==
  {TextScale, TextRange, TextAscentRate, TextNotANumber, TextExponent, TextUnderscore,
   TextThousands, TextMinusInf, TextNaN, TextHex, TextTupleExponent, TextTupleWord,
   TextQuotedPadded, TextUpperExponent}

ValueTexts == BoundedTexts \cup SpecialTexts

\* No file is parsed: the variables of parse_files stay as after its return
InitValue ==
  /\ value_str \in ValueTexts
  /\ value = NotParsed
  /\ asn_files = <<>>
  /\ file_no = 1
  /\ pc = "done"
  /\ pos = 0
  /\ current_module = UnknownModule
  /\ current_type = UnknownType
  /\ in_sequence = FALSE
  /\ meta_lines = <<>>
  /\ entries = <<>>
  /\ file_data = <<>>
  /\ overall_data = EmptyMap
  /\ pulls = <<>>
  /\ marks = <<>>
  /\ data = EmptyMap

\* value = parse_meta_value(value_str)
ParseValue ==
  /\ value = NotParsed
  /\ value' = parse_meta_value(value_str)
  /\ UNCHANGED <<value_str, data, asn_files, file_no, pc, pos, context, meta_lines,
                 entries, file_data, overall_data, pulls, marks>>

NextValue == ParseValue

SpecValue == InitValue /\ [][NextValue]_vars

(***************************************************************************)
(* The legacy parser: parse() of ans1meta/parser.py.  asn_files stands for *)
(* the files glob.glob returns, pos for the index i of the while loop, and *)
(* pc is "scan" inside the loops, "done" after the return, and             *)
(* "ValueError" or "KeyError" when that exception has left parse().        *)
(***************************************************************************)
\* module_re: ^(\w+)\s+DEFINITIONS
module_re(line) ==
  LET a == RunEnd(line, 1, WordChars)
      b == RunEnd(line, a, SpaceChars)
  IN  IF a > 1 /\ b > a /\ startswith(From(line, b), DEFINITIONS)
      THEN [ok |-> TRUE, name |-> SubSeq(line, 1, a - 1)]
      ELSE NoName

\* type_re: ^(\w+)\s*::=\s*SEQUENCE\s*{
type_re(line) ==
  LET a == RunEnd(line, 1, WordChars)
      b == RunEnd(line, a, SpaceChars)
      c == RunEnd(line, b + 3, SpaceChars)
      d == RunEnd(line, c + 8, SpaceChars)
  IN  IF /\ a > 1
         /\ startswith(From(line, b), <<":", ":", "=">>)
         /\ startswith(From(line, c), SEQUENCE)
         /\ startswith(From(line, d), <<"{">>)
      THEN [ok |-> TRUE, name |-> SubSeq(line, 1, a - 1)]
      ELSE NoName

\* field_re: ^([\w-]+)\s+INTEGER(?:\s*\(([-0-9]+)\.\.([-0-9]+)\))?
field_re(line) ==
  LET a == RunEnd(line, 1, WordDashChars)
      b == RunEnd(line, a, SpaceChars)
  IN  IF a > 1 /\ b > a /\ startswith(From(line, b), INTEGER)
      THEN [ok |-> TRUE, name |-> SubSeq(line, 1, a - 1),
            bounds |-> match_bounds(line, b + Len(INTEGER))]
      ELSE [ok |-> FALSE, name |-> <<>>,
            bounds |-> [ok |-> FALSE, g3 |-> <<>>, g4 |-> <<>>]]

ScaleWord == <<"#","S","c","a","l","e">>
RangeWord == <<"#","R","a","n","g","e">>
LegacyMetaMarker == <<"-","-"," ","@","M","e","t","a">>

\* re.match(r"--\s*#Scale\s+([0-9.]+)", scale_line)
scale_match(scale_line) ==
  LET a == RunEnd(scale_line, 3, SpaceChars)
      b == a + Len(ScaleWord)
      c == RunEnd(scale_line, b, SpaceChars)
      d == RunEnd(scale_line, c, Digits \cup {"."})
  IN  IF /\ startswith(scale_line, <<"-", "-">>)
         /\ startswith(From(scale_line, a), ScaleWord)
         /\ c > b
         /\ d > c
      THEN [ok |-> TRUE, g1 |-> SubSeq(scale_line, c, d - 1)]
      ELSE [ok |-> FALSE, g1 |-> <<>>]

\* re.match(r"--\s*#Range\s+([-0-9.]+)\s*,\s*([-0-9.]+)", range_line)
range_match(range_line) ==
  LET a == RunEnd(range_line, 3, SpaceChars)
      b == a + Len(RangeWord)
      c == RunEnd(range_line, b, SpaceChars)
      d == RunEnd(range_line, c, DashDigitChars \cup {"."})
      e == RunEnd(range_line, d, SpaceChars)
      f == RunEnd(range_line, e + 1, SpaceChars)
      g == RunEnd(range_line, f, DashDigitChars \cup {"."})
  IN  IF /\ startswith(range_line, <<"-", "-">>)
         /\ startswith(From(range_line, a), RangeWord)
         /\ c > b
         /\ d > c
         /\ startswith(From(range_line, e), <<",">>)
         /\ g > f
      THEN [ok |-> TRUE, g1 |-> SubSeq(range_line, c, d - 1),
            g2 |-> SubSeq(range_line, f, g - 1)]
      ELSE [ok |-> FALSE, g1 |-> <<>>, g2 |-> <<>>]

\* '-- @Meta\n'
LegacyMarker == <<"-","-"," ","@","M","e","t","a","\n">>

\* '-- #Scale 0.1\n'
LegacyScale == <<"-","-"," ","#","S","c","a","l","e"," ","0",".","1","\n">>

\* '-- #Range -1, 1\n'
LegacyRange ==
  <<"-","-"," ","#","R","a","n","g","e"," ","-","1",","," ","1","\n">>

\* '-- #Scale .\n'
LegacyScaleDot == <<"-","-"," ","#","S","c","a","l","e"," ",".","\n">>

\* 'N DEFINITIONS\n'
LineModuleN == <<"N"," ","D","E","F","I","N","I","T","I","O","N","S","\n">>

\* The lines the bounded files of the legacy parser are made of
LegacyVocabulary ==
  {LineModule, LineType, LineClose, LegacyMarker, LegacyScale, LegacyRange, LineField,
   LineBlank}

\* The example of the docstring of parse()
LegacyExample ==
  <<LineModule, LineType, LegacyMarker, LegacyScale, LegacyRange, LineField, LineClose>>

\* A file that ends inside a SEQUENCE body
LegacyOpenType == <<LineModule, LineType>>

\* A file that declares a module and annotates a field outside any type
LegacyOtherModule ==
  <<LineModuleN, LegacyMarker, LegacyScale, LegacyRange, LineBlank, LineField>>

LegacyBadScale == <<LineType, LegacyMarker, LegacyScaleDot, LegacyRange, LineField>>

LegacyBadBounds == <<LineType, LegacyMarker, LegacyScale, LegacyRange, LineBadBounds>>

LegacyPresetFiles ==
  {LegacyExample, LegacyOpenType, LegacyOtherModule, LegacyBadScale, LegacyBadBounds}

MaxLegacyLines == 4

LegacyBoundedFiles == UNION {[1..n -> LegacyVocabulary] : n \in 0..MaxLegacyLines}

LegacyFileLists ==
  {<<f>> : f \in LegacyBoundedFiles}
    \cup UNION {[1..n -> LegacyPresetFiles] : n \in 0..MaxFiles}

\* The variables parse() does not touch
legacy_apart ==
  <<meta_lines, entries, file_data, overall_data, pulls, marks, value_str, value>>

\* data, current_module, current_type and in_sequence are set once, before
\* the loop over the files
InitLegacy ==
  /\ asn_files \in LegacyFileLists
  /\ file_no = 1
  /\ pc = "scan"
  /\ pos = 0
  /\ data = EmptyMap
  /\ current_module = UnknownModule
  /\ current_type = UnknownType
  /\ in_sequence = FALSE
  /\ meta_lines = <<>>
  /\ entries = <<>>
  /\ file_data = <<>>
  /\ overall_data = EmptyMap
  /\ pulls = <<>>
  /\ marks = <<>>
  /\ value_str = <<>>
  /\ value = NotParsed

\* legacy_line = lines[i].strip()
legacy_line == strip(lines[pos + 1])

\* The test of the while loop inside the loop over the files
InWhile == pc = "scan" /\ file_no <= Len(asn_files) /\ pos < Len(lines)

\* "i += 1; continue": only i changes
NextIndex ==
  /\ pos' = pos + 1
  /\ UNCHANGED <<asn_files, file_no, pc, data, context, legacy_apart>>

\* if not line
LegacyBlankLine ==
  /\ InWhile
  /\ legacy_line = <<>>
  /\ NextIndex

\* if current_module not in data: data[current_module] = {}
WithModule(d, module) == IF module \in DOMAIN d THEN d ELSE SetItem(d, module, EmptyMap)

\* if current_type not in data[current_module]: data[current_module][current_type] = {}
WithType(d, module, type) ==
  IF type \in DOMAIN d[module] THEN d
  ELSE SetItem(d, module, SetItem(d[module], type, EmptyMap))

\* if mod_match
LegacyModuleLine ==
  /\ InWhile
  /\ legacy_line # <<>>
  /\ module_re(legacy_line).ok
  /\ current_module' = module_re(legacy_line).name
  /\ data' = WithModule(data, module_re(legacy_line).name)
  /\ pos' = pos + 1
  /\ UNCHANGED <<asn_files, file_no, pc, current_type, in_sequence, legacy_apart>>

\* if type_match
LegacyTypeLine ==
  /\ InWhile
  /\ legacy_line # <<>>
  /\ ~module_re(legacy_line).ok
  /\ type_re(legacy_line).ok
  /\ current_type' = type_re(legacy_line).name
  /\ data' = WithType(WithModule(data, current_module), current_module,
                      type_re(legacy_line).name)
  /\ in_sequence' = TRUE
  /\ pos' = pos + 1
  /\ UNCHANGED <<asn_files, file_no, pc, current_module, legacy_apart>>

\* The line is not blank and matches neither module_re nor type_re
LegacyBodyLine == legacy_line # <<>> /\ ~module_re(legacy_line).ok /\ ~type_re(legacy_line).ok

\* if in_sequence and line == "}"
LegacyCloseLine ==
  /\ InWhile
  /\ LegacyBodyLine
  /\ in_sequence /\ legacy_line = CloseBrace
  /\ in_sequence' = FALSE
  /\ current_type' = UnknownType
  /\ pos' = pos + 1
  /\ UNCHANGED <<asn_files, file_no, pc, data, current_module, legacy_apart>>

\* The index j after "while j < len(lines) and not lines[j].strip()", from 1
field_index ==
  CHOOSE j \in (pos + 4)..(Len(lines) + 1) :
    /\ \A k \in (pos + 4)..(j - 1) : strip(lines[k]) = <<>>
    /\ (j = Len(lines) + 1 \/ strip(lines[j]) # <<>>)

\* metadata of a block: scale, range and, if the field line has them,
\* range_constraint
Metadata(scale_val, phys_min, phys_max, bounds) ==
  IF bounds.ok
  THEN ("scale" :> scale_val) @@ ("range" :> <<phys_min, phys_max>>)
         @@ ("range_constraint" :> <<int(bounds.g3).n, int(bounds.g4).n>>)
  ELSE ("scale" :> scale_val) @@ ("range" :> <<phys_min, phys_max>>)

\* The block is complete: the three float() calls, the field line, the two
\* int() calls and the store data[current_module][current_type][field_name]
StoreBlock(scale, range) ==
  IF ~(float(scale.g1).ok /\ float(range.g1).ok /\ float(range.g2).ok)
  THEN pc' = "ValueError" /\ UNCHANGED <<pos, data>>
  ELSE IF ~(field_index <= Len(lines) /\ field_re(strip(lines[field_index])).ok)
  THEN pos' = pos + 1 /\ UNCHANGED <<pc, data>>
  ELSE LET field_match == field_re(strip(lines[field_index]))
       IN  IF /\ field_match.bounds.ok
              /\ ~(int(field_match.bounds.g3).ok /\ int(field_match.bounds.g4).ok)
           THEN pc' = "ValueError" /\ UNCHANGED <<pos, data>>
           ELSE IF \/ current_module \notin DOMAIN data
                   \/ current_type \notin DOMAIN data[current_module]
           THEN pc' = "KeyError" /\ UNCHANGED <<pos, data>>
           ELSE /\ data' =
                     SetItem(data, current_module,
                       SetItem(data[current_module], current_type,
                         SetItem(data[current_module][current_type], field_match.name,
                           Metadata(float(scale.g1).f, float(range.g1).f,
                                    float(range.g2).f, field_match.bounds))))
                /\ pos' = field_index
                /\ UNCHANGED pc

\* if in_sequence and line.startswith("-- @Meta")
LegacyMetaBlock ==
  /\ InWhile
  /\ LegacyBodyLine
  /\ ~(in_sequence /\ legacy_line = CloseBrace)
  /\ in_sequence /\ startswith(legacy_line, LegacyMetaMarker)
  /\ IF /\ pos + 2 < Len(lines)
        /\ scale_match(strip(lines[pos + 2])).ok
        /\ range_match(strip(lines[pos + 3])).ok
     THEN StoreBlock(scale_match(strip(lines[pos + 2])),
                     range_match(strip(lines[pos + 3])))
     ELSE pos' = pos + 1 /\ UNCHANGED <<pc, data>>
  /\ UNCHANGED <<asn_files, file_no, context, legacy_apart>>

\* For all other lines, just proceed
LegacyOtherLine ==
  /\ InWhile
  /\ LegacyBodyLine
  /\ ~(in_sequence /\ legacy_line = CloseBrace)
  /\ ~(in_sequence /\ startswith(legacy_line, LegacyMetaMarker))
  /\ NextIndex

\* The while loop ends: the loop over the files takes the next file
LegacyNextFile ==
  /\ pc = "scan"
  /\ file_no <= Len(asn_files)
  /\ pos = Len(lines)
  /\ file_no' = file_no + 1
  /\ pos' = 0
  /\ UNCHANGED <<asn_files, pc, data, context, legacy_apart>>

\* return data
LegacyReturn ==
  /\ pc = "scan"
  /\ file_no > Len(asn_files)
  /\ pc' = "done"
  /\ UNCHANGED <<asn_files, file_no, pos, data, context, legacy_apart>>

NextLegacy ==
  \/ LegacyBlankLine
  \/ LegacyModuleLine
  \/ LegacyTypeLine
  \/ LegacyCloseLine
  \/ LegacyMetaBlock
  \/ LegacyOtherLine
  \/ LegacyNextFile
  \/ LegacyReturn

SpecLegacy == InitLegacy /\ [][NextLegacy]_vars

(***************************************************************************)
(* Vocabulary of the properties.                                           *)
(***************************************************************************)
\* The scan of a file is in progress (or was left by an exception)
Scanning == pc \in {"outer", "collect", "raised"}

\* The next step of the scan pulls a line
PullsNext == pc \in {"outer", "collect"} /\ pos < Len(lines)

\* The inner loop is about to pull the line that ends its block
EndsBlockNext == pc = "collect" /\ pos < Len(lines) /\ ~IsDirectiveLine(next_line)

\* Every collected directive line has the form "-- @Key value"
WellFormedDirectives ==
  \A i \in 1..Len(meta_lines) : match_directive(meta_lines[i]).ok

\* The last of the collected directive lines that have the key of line i
IsLastOfKey(i) ==
  \A j \in (i + 1)..Len(meta_lines) :
    match_directive(meta_lines[j]).key # match_directive(meta_lines[i]).key

\* The (module, type) pairs of an index
Pairs(index) == UNION {{<<m, t>> : t \in DOMAIN index[m]} : m \in DOMAIN index}

\* The last scanned file whose index has the pair p
LastFileWith(p) ==
  CHOOSE k \in 1..Len(file_data) :
    /\ p \in Pairs(file_data[k])
    /\ \A j \in (k + 1)..Len(file_data) : p \notin Pairs(file_data[j])

\* Names and values of Scenario A
NameMyModule == <<"M","y","M","o","d","u","l","e">>
NameTelemetry == <<"T","e","l","e","m","e","t","r","y">>
NameAscentRate == <<"a","s","c","e","n","t","-","r","a","t","e">>
NameVoltage == <<"v","o","l","t","a","g","e">>
NameCurrent == <<"c","u","r","r","e","n","t">>
KeyScale == <<"S","c","a","l","e">>
KeyRange == <<"R","a","n","g","e">>

Decimal(num, exp) == [kind |-> "fin", num |-> num, exp |-> exp]

\* {"MyModule": {"Telemetry": {"ascent-rate": {"field": {"type": "INTEGER",
\*  "restrict-to": (-128, 127)}, "meta": {"Scale": 0.1, "Range": (-12.8, 12.7)}}}}}
ScenarioAIndex ==
  NameMyModule :> (NameTelemetry :> (NameAscentRate :>
    [field |-> ("type" :> INTEGER) @@ ("restrict-to" :> <<-128, 127>>),
     meta  |-> (KeyScale :> Number(Decimal(1, -1)))
                 @@ (KeyRange :> Tuple(<<Decimal(-128, -1), Decimal(127, -1)>>))]))

(***************************************************************************)
(* C1.  A block read inside a SEQUENCE body that has one or more           *)
(* well-formed directive lines and ends with a field line that parses      *)
(* yields exactly one entry: its meta map has exactly the keys of the      *)
(* directives, each with the coerced value of its (last) directive, its    *)
(* field type is the type token of the field line, and "restrict-to" holds *)
(* the bounds of an INTEGER field.  Scenario A yields the Scenario A index.*)
(***************************************************************************)
C1_WellFormedBlockYieldsEntry ==
  [][ /\ ( /\ EndsBlockNext
           /\ in_sequence
           /\ meta_lines # <<>>
           /\ WellFormedDirectives
           /\ parse_field_line(next_line).status = "ok" )
         => /\ Len(entries') = Len(entries) + 1
            /\ SubSeq(entries', 1, Len(entries)) = entries
            /\ LET e  == entries'[Len(entries')]
                   fp == parse_field_line(next_line)
               IN  /\ e.module = current_module
                   /\ e.type = current_type
                   /\ e.field = fp.field_name
                   /\ DOMAIN e.entry.meta =
                        {match_directive(meta_lines[i]).key : i \in 1..Len(meta_lines)}
                   /\ \A i \in 1..Len(meta_lines) :
                        IsLastOfKey(i) =>
                          e.entry.meta[match_directive(meta_lines[i]).key] =
                            parse_meta_value(match_directive(meta_lines[i]).value_str)
                   /\ e.entry.field["type"] = fp.field_type
                   /\ ("restrict-to" \in DOMAIN e.entry.field) =
                        (fp.field_type = INTEGER /\ fp.integer_restrict_to.has)
                   /\ (fp.field_type = INTEGER /\ fp.integer_restrict_to.has) =>
                        e.entry.field["restrict-to"] =
                          <<fp.integer_restrict_to.lo, fp.integer_restrict_to.hi>>
      /\ (asn_files = <<ScenarioA>> /\ pc' = "done") => overall_data' = ScenarioAIndex
    ]_vars

\* An entry has just been yielded for a block of well-formed directives
C1_Witness ==
  /\ pc = "outer"
  /\ in_sequence
  /\ entries # <<>>
  /\ marks[Len(marks)].field = pos
  /\ meta_lines # <<>>
  /\ WellFormedDirectives
  /\ "restrict-to" \in DOMAIN entries[Len(entries)].entry.field

C3_WholesaleReplace ==
  /\ DOMAIN overall_data = UNION {DOMAIN file_data[k] : k \in 1..Len(file_data)}
  /\ Pairs(overall_data) = UNION {Pairs(file_data[k]) : k \in 1..Len(file_data)}
  /\ \A p \in Pairs(overall_data) :
       overall_data[p[1]][p[2]] = file_data[LastFileWith(p)][p[1]][p[2]]

\* Scenario C: two files define the same type with different fields, and the
\* type has the fields of the second file only
C3_Witness ==
  /\ pc = "done"
  /\ Len(file_data) = 2
  /\ \E p \in Pairs(file_data[1]) \cap Pairs(file_data[2]) :
       /\ DOMAIN file_data[1][p[1]][p[2]] \ DOMAIN file_data[2][p[1]][p[2]] # {}
       /\ DOMAIN file_data[2][p[1]][p[2]] \ DOMAIN file_data[1][p[1]][p[2]] # {}
       /\ overall_data[p[1]][p[2]] = file_data[2][p[1]][p[2]]

(***************************************************************************)
(* C4.  As claimed: for every sequence of lines the scan completes without *)
(* raising; a field line that is not well formed only drops its block.     *)
(***************************************************************************)
C4_NeverRaises == pc # "raised"

(***************************************************************************)
(* C5.  As claimed: whenever a line that is exactly "}" is read while      *)
(* in_sequence is true, in_sequence is false and current_type is the       *)
(* sentinel after the line is consumed, and current_module is unchanged,   *)
(* also when the line follows a marker line or directive lines.            *)
(***************************************************************************)
C5_CloseResetsContext ==
  [][ (PullsNext /\ in_sequence /\ next_line = CloseBrace)
      => /\ in_sequence' = FALSE
         /\ current_type' = UnknownType
         /\ current_module' = current_module
    ]_vars

(***************************************************************************)
(* C6.  As claimed: a blank line never changes the state of the scanner    *)
(* and is never taken as a marker line or as the field line that ends a    *)
(* block.                                                                  *)
(***************************************************************************)
C6_BlankLinesIgnored ==
  [][ (PullsNext /\ next_line = <<>>)
      => /\ pc' = pc
         /\ context' = context
         /\ meta_lines' = meta_lines
         /\ entries' = entries
    ]_vars

(***************************************************************************)
(* C7.  When the lines run out inside the inner loop, no entry is yielded  *)
(* for the block, the entries yielded before are kept, nothing raises, and *)
(* the scan ends: the file's index is made of the entries yielded before.  *)
(***************************************************************************)
C7_ExhaustedBlockDropped ==
  [][ /\ (pc = "collect" /\ pos = Len(lines))
         => entries' = entries /\ pc' = "outer" /\ pos' = pos
      /\ (pc = "outer" /\ pos = Len(lines))
         => /\ pc' = "start"
            /\ entries' = entries
            /\ file_data' = Append(file_data, process_entries(entries))
    ]_vars

\* The scan of a file has ended inside a block, after an earlier entry
C7_Witness ==
  /\ pc = "start"
  /\ file_no > 1
  /\ pulls # <<>>
  /\ entries # <<>>
  /\ marks[Len(marks)].field < Len(pulls)
  /\ pulls[Len(pulls)].by = "collector"
  /\ IsDirectiveLine(strip(asn_files[file_no - 1][Len(pulls)]))
  /\ file_data[file_no - 1] = process_entries(entries)

(***************************************************************************)
(* C8.  Every entry comes from a marker line of its own, read by the outer *)
(* loop inside a SEQUENCE body and followed by directive lines only up to  *)
(* the field line of the entry; so a file has at most as many entries as   *)
(* marker lines read inside a SEQUENCE body, and its index has a key only  *)
(* for fields that end such a block.                                       *)
(***************************************************************************)
\* Some file has been scanned, wholly or up to the current line
HasScan == Scanning \/ file_no > 1

\* The lines of the file that entries, pulls and marks are about
ScannedLines == asn_files[IF Scanning THEN file_no ELSE file_no - 1]

\* Line k was read by the outer loop as a marker line inside a SEQUENCE body
ReadAsMarker(k) ==
  /\ pulls[k].by = "outer"
  /\ pulls[k].in_sequence
  /\ startswith(strip(ScannedLines[k]), MetaMarker)

C8_OnlyAnnotatedFieldsYield ==
  HasScan =>
    /\ Len(marks) = Len(entries)
    /\ \A i \in 1..Len(entries) :
         /\ marks[i].marker < marks[i].field
         /\ marks[i].field <= Len(pulls)
         /\ ReadAsMarker(marks[i].marker)
         /\ \A k \in (marks[i].marker + 1)..(marks[i].field - 1) :
              pulls[k].by = "collector" /\ IsDirectiveLine(strip(ScannedLines[k]))
         /\ pulls[marks[i].field].by = "collector"
         /\ entries[i].field =
              parse_field_line(strip(ScannedLines[marks[i].field])).field_name
    /\ \A i, j \in 1..Len(entries) : i # j => marks[i].marker # marks[j].marker
    /\ Len(entries) <= Cardinality({k \in 1..Len(pulls) : ReadAsMarker(k)})
    /\ (~Scanning) =>
         \A m \in DOMAIN file_data[file_no - 1] :
           \A t \in DOMAIN file_data[file_no - 1][m] :
             \A f \in DOMAIN file_data[file_no - 1][m][t] :
               \E i \in 1..Len(entries) :
                 entries[i].module = m /\ entries[i].type = t /\ entries[i].field = f

\* Scenario B: the field line of "current" was read inside the SEQUENCE body
\* without a marker line before it, and the index has no key for it
C8_Witness ==
  /\ pc = "start"
  /\ file_no > 1
  /\ ScannedLines = FileVoltage
  /\ \E k \in 1..Len(pulls) :
       /\ pulls[k].by = "outer"
       /\ pulls[k].in_sequence
       /\ parse_field_line(strip(ScannedLines[k])).status = "ok"
       /\ parse_field_line(strip(ScannedLines[k])).field_name = NameCurrent
  /\ DOMAIN file_data[file_no - 1][NameMyModule][NameTelemetry] = {NameVoltage}

(***************************************************************************)
(* C9.  A marker line read while in_sequence is false starts no            *)
(* collection: it consumes no further line, yields no entry and leaves the *)
(* context unchanged, and the lines after it are read by the outer loop.   *)
(* The inner loop only pulls lines after a marker line that was read       *)
(* inside a SEQUENCE body.                                                 *)
(***************************************************************************)
\* The last line before line k that the outer loop pulled
LastOuterBefore(k) ==
  CHOOSE m \in 1..(k - 1) :
    pulls[m].by = "outer" /\ \A j \in (m + 1)..(k - 1) : pulls[j].by = "collector"

C9_MarkerOutsideSequenceIgnored ==
  /\ [][ (pc = "outer" /\ pos < Len(lines) /\ ~in_sequence
            /\ startswith(next_line, MetaMarker))
         => /\ pc' = "outer"
            /\ pos' = pos + 1
            /\ pulls'[pos + 1].by = "outer"
            /\ entries' = entries
            /\ context' = context
            /\ meta_lines' = meta_lines
       ]_vars
  /\ [](HasScan =>
          \A k \in 1..Len(pulls) :
            pulls[k].by = "collector" =>
              /\ \E m \in 1..(k - 1) : pulls[m].by = "outer"
              /\ ReadAsMarker(LastOuterBefore(k)))

\* A marker line was read outside a SEQUENCE body, and the directive line
\* after it was read by the outer loop
C9_Witness ==
  /\ Scanning
  /\ \E k \in 1..(Len(pulls) - 1) :
       /\ pulls[k].by = "outer"
       /\ ~pulls[k].in_sequence
       /\ startswith(strip(lines[k]), MetaMarker)
       /\ pulls[k + 1].by = "outer"
       /\ IsDirectiveLine(strip(lines[k + 1]))

(***************************************************************************)
(* C10.  As claimed: the scan is one forward pass.  The k-th pull takes    *)
(* line k, whichever loop pulls it; the line that ends a block is followed *)
(* by the outer loop at the next line; and a scan that has ended has       *)
(* pulled every line of the file.                                          *)
(***************************************************************************)
C10_SingleForwardPass ==
  /\ [](HasScan =>
          /\ Len(pulls) = pos
          /\ \A k \in 1..Len(pulls) : pulls[k].line = k
          /\ (pc \in {"start", "done", "raised"}) => Len(pulls) = Len(ScannedLines))
  /\ [][EndsBlockNext => pc' = "outer" /\ pos' = pos + 1]_vars

KeyUnits == <<"U","n","i","t","s">>

(***************************************************************************)
(* C11.  Every scan of a file starts from the default context, whatever    *)
(* the scan before left; files with the same lines get the same index;     *)
(* and parse_files of a list that repeats one file returns the index of    *)
(* that file, as parse_files of the file alone does.                       *)
(***************************************************************************)
C11_FileScansIndependent ==
  /\ [][ (pc = "start" /\ file_no <= Len(asn_files))
         => /\ pc' = "outer"
            /\ pos' = 0
            /\ entries' = <<>>
            /\ current_module' = UnknownModule
            /\ current_type' = UnknownType
            /\ in_sequence' = FALSE
       ]_vars
  /\ [](\A i, j \in 1..Len(file_data) :
          asn_files[i] = asn_files[j] => file_data[i] = file_data[j])
  /\ []((pc = "done" /\ asn_files # <<>>
           /\ \A k \in 1..Len(asn_files) : asn_files[k] = asn_files[1])
        => overall_data = file_data[1])

\* The same file was scanned twice; its scan leaves a context that is not the
\* default one, and its index is not empty
C11_Witness ==
  /\ pc = "done"
  /\ Len(asn_files) = 2
  /\ asn_files[1] = asn_files[2]
  /\ in_sequence
  /\ current_module # UnknownModule
  /\ file_data[1] # EmptyMap
  /\ overall_data = file_data[1]

\* Entry i is the last one yielded for its (module, type, field)
IsLastOfField(i) ==
  \A j \in (i + 1)..Len(entries) :
    <<entries[j].module, entries[j].type, entries[j].field>>
      # <<entries[i].module, entries[i].type, entries[i].field>>

(***************************************************************************)
(* C12.  The index of a file holds, for every (module, type, field) that   *)
(* entries were yielded for, the last of these entries as a whole; fields  *)
(* of the same type with other names are all kept.                         *)
(***************************************************************************)
C12_LastEntryWins ==
  (~Scanning /\ file_no > 1) =>
    \A i \in 1..Len(entries) :
      /\ entries[i].module \in DOMAIN file_data[file_no - 1]
      /\ entries[i].type \in DOMAIN file_data[file_no - 1][entries[i].module]
      /\ entries[i].field
           \in DOMAIN file_data[file_no - 1][entries[i].module][entries[i].type]
      /\ IsLastOfField(i) =>
           file_data[file_no - 1][entries[i].module][entries[i].type][entries[i].field]
             = entries[i].entry

\* A type body was opened twice and a field annotated twice with different
\* directives: the index has the later entry of the field and the other field
C12_Witness ==
  /\ pc = "start"
  /\ file_no > 1
  /\ asn_files[file_no - 1] = FileReopened
  /\ \E i, j \in 1..Len(entries) :
       /\ i < j
       /\ entries[i].field = NameVoltage /\ entries[j].field = NameVoltage
       /\ DOMAIN entries[i].entry.meta = {KeyScale}
  /\ DOMAIN file_data[file_no - 1][UnknownModule][NameTelemetry]
       = {NameVoltage, NameAscentRate}
  /\ DOMAIN file_data[file_no - 1][UnknownModule][NameTelemetry][NameVoltage].meta
       = {KeyUnits}

\* The declared type token of a field line and the match of "(lo..hi)" after it
FieldTokens(line) ==
  LET a == RunEnd(line, 1, WordDashChars)
      b == RunEnd(line, a, SpaceChars)
      c == RunEnd(line, b, WordDashChars)
  IN  [type |-> SubSeq(line, b, c - 1), bounds |-> match_bounds(line, c)]

\* The terminating line of the block of entry i
FieldLineOf(i) == strip(ScannedLines[marks[i].field])

(***************************************************************************)
(* C14.  The field info of an entry has the key "restrict-to" exactly when *)
(* the type token of its terminating line is INTEGER and the line has a    *)
(* "(lo..hi)" bound; the value is then (lo, hi) as written, also when      *)
(* lo > hi.                                                                *)
(***************************************************************************)
C14_RestrictToOnlyOnInteger ==
  HasScan =>
    \A i \in 1..Len(entries) :
      /\ ("restrict-to" \in DOMAIN entries[i].entry.field)
           <=> /\ FieldTokens(FieldLineOf(i)).type = INTEGER
               /\ FieldTokens(FieldLineOf(i)).bounds.ok
      /\ ("restrict-to" \in DOMAIN entries[i].entry.field)
           => entries[i].entry.field["restrict-to"]
                = <<int(FieldTokens(FieldLineOf(i)).bounds.g3).n,
                    int(FieldTokens(FieldLineOf(i)).bounds.g4).n>>

\* 'depth INTEGER (5..-5),' was yielded with the bounds (5, -5), and
\* 'b X(1..2)' was yielded without bounds
C14_Witness ==
  /\ Scanning
  /\ lines = FileTwoTypes
  /\ Len(entries) = 2
  /\ entries[1].entry.field["restrict-to"] = <<5, -5>>
  /\ FieldTokens(FieldLineOf(2)).bounds.ok
  /\ FieldTokens(FieldLineOf(2)).type # INTEGER
  /\ DOMAIN entries[2].entry.field = {"type"}

\* A directive line that is a key without a value: "-- @Key"
IsKeyOnlyLine(l) ==
  /\ startswith(l, DirectivePrefix)
  /\ Len(l) > Len(DirectivePrefix)
  /\ \A i \in (Len(DirectivePrefix) + 1)..Len(l) : l[i] \in WordChars

\* The collected directive lines that have a key and a value
WellFormedLines ==
  {i \in 1..Len(meta_lines) :
     ~IsKeyOnlyLine(meta_lines[i]) /\ match_directive(meta_lines[i]).ok}

\* Line i is the last of the well-formed lines that have its key
IsLastWellFormedOfKey(i) ==
  \A j \in WellFormedLines :
    j > i => match_directive(meta_lines[j]).key # match_directive(meta_lines[i]).key

KeyScaleLower == <<"s","c","a","l","e">>

(***************************************************************************)
(* C15.  When a block with a well-formed directive and a directive line    *)
(* that fails the key/value pattern ends at a valid field line, an entry   *)
(* is yielded; its meta map has the keys of the well-formed lines only,    *)
(* each with its coerced value.                                            *)
(***************************************************************************)
C15_MalformedDirectiveOmitted ==
  [][ (/\ EndsBlockNext
       /\ parse_field_line(next_line).status = "ok"
       /\ WellFormedLines # {}
       /\ \E i \in 1..Len(meta_lines) : i \notin WellFormedLines)
      => /\ Len(entries') = Len(entries) + 1
         /\ DOMAIN entries'[Len(entries')].entry.meta
              = {match_directive(meta_lines[i]).key : i \in WellFormedLines}
         /\ \A i \in WellFormedLines :
              IsLastWellFormedOfKey(i) =>
                entries'[Len(entries')].entry.meta[match_directive(meta_lines[i]).key]
                  = parse_meta_value(match_directive(meta_lines[i]).value_str)
    ]_vars

\* The block with '-- @Units' among its directives was yielded without the
\* key Units
C15_Witness ==
  /\ Scanning
  /\ lines = FileDirectives
  /\ Len(entries) = 1
  /\ \E k \in (marks[1].marker + 1)..(marks[1].field - 1) :
       IsKeyOnlyLine(strip(lines[k]))
  /\ DOMAIN entries[1].entry.meta = {KeyScale, KeyScaleLower}

\* The match of the directive pattern on line k of the scanned file
DirectiveOf(k) == match_directive(strip(ScannedLines[k]))

(***************************************************************************)
(* C16.  The meta map of an entry has, for every key of a well-formed      *)
(* directive line of its block, the coerced value of the last line with    *)
(* that key; keys are compared character by character, so "Scale" and      *)
(* "scale" are two keys.                                                   *)
(***************************************************************************)
C16_LastDirectiveOfKeyWins ==
  HasScan =>
    \A i \in 1..Len(entries) :
      \A k \in (marks[i].marker + 1)..(marks[i].field - 1) :
        (/\ DirectiveOf(k).ok
         /\ \A j \in (k + 1)..(marks[i].field - 1) :
              ~(DirectiveOf(j).ok /\ DirectiveOf(j).key = DirectiveOf(k).key))
        => /\ DirectiveOf(k).key \in DOMAIN entries[i].entry.meta
           /\ entries[i].entry.meta[DirectiveOf(k).key]
                = parse_meta_value(DirectiveOf(k).value_str)

\* '-- @Scale 0.1', '-- @scale 2', '-- @Scale 0.5': Scale is 0.5 and scale is 2
C16_Witness ==
  /\ Scanning
  /\ lines = FileDirectives
  /\ Len(entries) = 1
  /\ \E k, j \in (marks[1].marker + 1)..(marks[1].field - 1) :
       /\ k < j
       /\ DirectiveOf(k).ok /\ DirectiveOf(j).ok
       /\ DirectiveOf(k).key = DirectiveOf(j).key
       /\ DirectiveOf(k).value_str # DirectiveOf(j).value_str
  /\ entries[1].entry.meta[KeyScale] = Number(Decimal(5, -1))
  /\ entries[1].entry.meta[KeyScaleLower] = Number(Decimal(2, 0))

\* The lines before line k that the outer loop read as module lines
OuterModuleLinesBefore(k) ==
  {m \in 1..(k - 1) : pulls[m].by = "outer" /\ IsModuleLine(strip(ScannedLines[m]))}

\* The lines before line k that the outer loop read as type lines
OuterTypeLinesBefore(k) ==
  {m \in 1..(k - 1) : pulls[m].by = "outer" /\ IsTypeLine(strip(ScannedLines[m]))}

\* The lines between t and k that the outer loop read as the close of a body
OuterClosesBetween(t, k) ==
  {j \in (t + 1)..(k - 1) :
     /\ pulls[j].by = "outer"
     /\ pulls[j].in_sequence
     /\ strip(ScannedLines[j]) = CloseBrace}

Last(S) == CHOOSE m \in S : \A j \in S : j <= m

(***************************************************************************)
(* C17.  The module of an entry is the name of the last module line the    *)
(* outer loop read before the marker line of the entry, or UnknownModule   *)
(* when there is none; its type is the name of the last type line the      *)
(* outer loop read before the marker, and no close of a body was read      *)
(* between the two.  So the type is UnknownType only when a type line      *)
(* declares that name.                                                     *)
(***************************************************************************)
C17_EntryHasLexicalContext ==
  HasScan =>
    \A i \in 1..Len(entries) :
      /\ entries[i].module =
           IF OuterModuleLinesBefore(marks[i].marker) = {} THEN UnknownModule
           ELSE parse_module_line(
                  strip(ScannedLines[Last(OuterModuleLinesBefore(marks[i].marker))])).name
      /\ OuterTypeLinesBefore(marks[i].marker) # {}
      /\ OuterClosesBetween(Last(OuterTypeLinesBefore(marks[i].marker)),
                            marks[i].marker) = {}
      /\ entries[i].type =
           parse_type_line(
             strip(ScannedLines[Last(OuterTypeLinesBefore(marks[i].marker))])).name
      /\ entries[i].type = UnknownType =>
           \E m \in OuterTypeLinesBefore(marks[i].marker) :
             parse_type_line(strip(ScannedLines[m])).name = UnknownType

\* The body of Status was closed before Telemetry was opened: the entry of
\* depth is under MyModule and Telemetry
C17_Witness ==
  /\ Scanning
  /\ lines = FileTwoTypes
  /\ entries # <<>>
  /\ \E j \in 1..(marks[1].marker - 1) :
       /\ pulls[j].by = "outer" /\ pulls[j].in_sequence
       /\ strip(lines[j]) = CloseBrace
       /\ OuterModuleLinesBefore(j) # {}
  /\ entries[1].module = NameMyModule
  /\ entries[1].type = NameTelemetry

\* The orders in which n files can be processed
Perms(n) == {p \in [1..n -> 1..n] : \A i, j \in 1..n : i # j => p[i] # p[j]}

\* No (module, type) pair is in the index of more than one file
DisjointPairs ==
  \A i, j \in 1..Len(file_data) :
    i # j => Pairs(file_data[i]) \cap Pairs(file_data[j]) = {}

NameStatus == <<"S","t","a","t","u","s">>

(***************************************************************************)
(* C19.  When no (module, type) pair is in the index of more than one      *)
(* file, merging the per-file indices in any order gives the index that    *)
(* parse_files returns, and that index is the union of the per-file        *)
(* indices: every pair of every file, with the fields of that file.        *)
(***************************************************************************)
C19_OrderIndependentWithoutRedefinition ==
  (pc = "done" /\ DisjointPairs) =>
    /\ \A p \in Perms(Len(file_data)) :
         merge_all([k \in 1..Len(file_data) |-> file_data[p[k]]]) = overall_data
    /\ Pairs(overall_data) = UNION {Pairs(file_data[k]) : k \in 1..Len(file_data)}
    /\ \A k \in 1..Len(file_data) :
         \A pr \in Pairs(file_data[k]) :
           overall_data[pr[1]][pr[2]] = file_data[k][pr[1]][pr[2]]

\* Two files declare different types of MyModule: both types are in the
\* final index
C19_Witness ==
  /\ pc = "done"
  /\ Len(file_data) = 2
  /\ DisjointPairs
  /\ DOMAIN file_data[1] = {NameMyModule}
  /\ DOMAIN file_data[2] = {NameMyModule}
  /\ DOMAIN file_data[1][NameMyModule] # DOMAIN file_data[2][NameMyModule]
  /\ DOMAIN overall_data[NameMyModule] = {NameTelemetry, NameStatus}

\* A text of two or more characters that begins with open and ends with close
IsWrapped(val, open, close) ==
  Len(val) >= 2 /\ val[1] = open /\ val[Len(val)] = close

\* The comma-separated pieces of a text wrapped in parentheses, trimmed
Pieces(val) ==
  [i \in 1..Len(split_comma(strip(Inner(val)))) |->
     strip(split_comma(strip(Inner(val)))[i])]

\* The value the four attempts give in their order, a "numeric" text being
\* one that float() accepts
ValueByAttempts(val) ==
  IF IsWrapped(val, "(", ")")
  THEN IF \A i \in 1..Len(Pieces(val)) : float(Pieces(val)[i]).ok
       THEN Tuple([i \in 1..Len(Pieces(val)) |-> float(Pieces(val)[i]).f])
       ELSE Text(val)
  ELSE IF IsWrapped(val, "'", "'") \/ IsWrapped(val, "\"", "\"")
  THEN Text(Inner(val))
  ELSE IF float(val).ok THEN Number(float(val).f)
  ELSE Text(val)

(***************************************************************************)
(* C13.  As claimed: parse_meta_value returns, for every text, the value   *)
(* of the first attempt that applies: a tuple or the unmodified text for a *)
(* text wrapped in parentheses, the inner text for a text wrapped in a     *)
(* matching pair of quotes, a number for a numeric text, and the trimmed   *)
(* text otherwise.                                                         *)
(***************************************************************************)
C13_CoercionOrder ==
  value # NotParsed => value = ValueByAttempts(strip(value_str))

\* A text made of an optional leading '-', digits and at most one decimal point
IsPlainDecimal(t) ==
  /\ \E i \in 1..Len(t) : t[i] \in Digits
  /\ \A i \in 1..Len(t) : t[i] \in Digits \cup {".", "-"}
  /\ \A i \in 2..Len(t) : t[i] # "-"
  /\ Cardinality({i \in 1..Len(t) : t[i] = "."}) <= 1

\* Digits with an optional decimal point, as float() takes them
IsMantissa(m) ==
  \/ IsDigitPart(m)
  \/ \E d \in 1..Len(m) :
       /\ m[d] = "."
       /\ Len(m) > 1
       /\ Before(m, d) = <<>> \/ IsDigitPart(Before(m, d))
       /\ After(m, d) = <<>> \/ IsDigitPart(After(m, d))

\* The texts float() accepts, trimmed: a sign, then inf, infinity or nan in
\* any case, or a mantissa with an optional exponent
IsFloatLiteral(t) ==
  \/ IsWordNoCase(Unsigned(t), <<"i","n","f">>)
  \/ IsWordNoCase(Unsigned(t), <<"i","n","f","i","n","i","t","y">>)
  \/ IsWordNoCase(Unsigned(t), <<"n","a","n">>)
  \/ IsMantissa(Unsigned(t))
  \/ \E k \in 1..Len(Unsigned(t)) :
       /\ Unsigned(t)[k] \in {"e", "E"}
       /\ IsMantissa(Before(Unsigned(t), k))
       /\ IsDigitPart(Unsigned(After(Unsigned(t), k)))

\* The text begins and ends as the first or the second test of
\* parse_meta_value asks
InParentheses(val) == startswith(val, <<"(">>) /\ endswith(val, <<")">>)
InQuotes(val) ==
  \/ startswith(val, <<"'">>) /\ endswith(val, <<"'">>)
  \/ startswith(val, <<"\"">>) /\ endswith(val, <<"\"">>)

(***************************************************************************)
(* C18, as claimed.  A Number is returned only for a text made of an       *)
(* optional leading '-', digits and at most one decimal point, and a Tuple *)
(* only when every piece is such a text.                                   *)
(***************************************************************************)
C18_PlainDecimalsOnly ==
  /\ value.tag = "Number" => IsPlainDecimal(strip(value_str))
  /\ value.tag = "Tuple" =>
       \A i \in 1..Len(Pieces(strip(value_str))) :
         IsPlainDecimal(Pieces(strip(value_str))[i])

(***************************************************************************)
(* C18, amended.  A Number is returned exactly for a text outside          *)
(* parentheses and quotes that float() accepts, and a Tuple exactly for a  *)
(* text in parentheses whose pieces float() all accepts: an optional sign  *)
(* '+' or '-', then digits (single underscores between digits allowed)     *)
(* with at most one decimal point and an optional exponent, or inf,        *)
(* infinity or nan in any case.                                            *)
(***************************************************************************)
C18_NumberIffFloatLiteral ==
  value # NotParsed =>
    /\ value.tag = "Number"
         <=> /\ ~InParentheses(strip(value_str))
             /\ ~InQuotes(strip(value_str))
             /\ IsFloatLiteral(strip(value_str))
    /\ value.tag = "Tuple"
         <=> /\ InParentheses(strip(value_str))
             /\ \A i \in 1..Len(Pieces(strip(value_str))) :
                  IsFloatLiteral(Pieces(strip(value_str))[i])

\* '1e3' was coerced to the number 1000
C18_Witness ==
  /\ value_str = TextExponent
  /\ value = Number(Decimal(1, 3))

(***************************************************************************)
(* C20.  As claimed, for the legacy parse(): whenever in_sequence is true, *)
(* data has the key current_module and data[current_module] has the key    *)
(* current_type, and the store of a parsed field never raises KeyError.    *)
(***************************************************************************)
C20_TypeKeyPresentInSequence ==
  /\ in_sequence =>
       /\ current_module \in DOMAIN data
       /\ current_type \in DOMAIN data[current_module]
  /\ pc # "KeyError"

====
